---- MODULE Spec2Model ----
(***************************************************************************)
(* useEventBus (packages/core/useEventBus/index.ts) over the module-level  *)
(* registry `events` (packages/core/useEventBus/internal.ts).              *)
(*                                                                         *)
(* The registry is a JavaScript Map from bus identifier to a record        *)
(* { listeners: [], handlerMap: Map<event name, handler[]> }.  Records and *)
(* handler arrays are objects: two names of one handlerMap may hold the    *)
(* same array, and an emit keeps iterating the record it fetched even when *)
(* the registry no longer holds it.  They are therefore modelled as a heap *)
(* (recs, arrs) addressed by identifiers.  Every handle operation is one   *)
(* action; emit is synchronous, so a whole emit, with everything the       *)
(* callbacks it invokes do to the bus, is one action as well.              *)
(***************************************************************************)
EXTENDS Integers, Sequences, FiniteSets, TLC

\* ------------------------------------------------------------------ bounds
\* callbacks the registry stores at the same time, over all its sequences
MaxRegs == 3
\* once-adapters (closures created by once) alive at the same time
MaxOnce == 1
\* unsubscribe functions the caller keeps hold of at the same time
MaxUnsubs == 1
\* cleanup functions the effect scopes hold at the same time
MaxCleanups == 2
\* nesting of emit calls made from inside callbacks
MaxDepth == 1

\* ------------------------------------------------------------------ values
\* JavaScript's undefined: a missing Map entry, an omitted event name
Undefined == "undefined"
Absent == 0

\* bus identifiers given to useEventBus, and the handles made from them
Keys == {"news", "other"}
Handles == {"A", "B", "C"}
KeyOf(h) == IF h = "C" THEN "other" ELSE "news"

\* event names: one equal to a bus identifier, a plain one, the omitted one
EventNames == {"news", "specific", Undefined}
Payloads == {"hello"}

\* effect scopes (a component's setup runs inside one), and no scope
Scopes == {"S1", "S2"}
NoScope == "none"

\* functions supplied by the caller
UserFns == {"L1", "L2"}

\* a callback stored in the registry: a caller's function (once = 0), or the
\* adapter _listener / _handler that once() wraps around it, which closes over
\* the handle's off, the event name and the wrapped function
Plain(f) == [fn |-> f, once |-> 0, h |-> "-", ev |-> "-", global |-> TRUE]
AdapterG(n, h, f) == [fn |-> f, once |-> n, h |-> h, ev |-> "-", global |-> TRUE]
AdapterS(n, h, e, f) == [fn |-> f, once |-> n, h |-> h, ev |-> e, global |-> FALSE]
NoCb == Plain("-")

\* ------------------------------------------------------------ Map and array
EmptyMap == [x \in {} |-> Absent]
MapGet(m, k) == IF k \in DOMAIN m THEN m[k] ELSE Absent
MapSet(m, k, v) == [x \in (DOMAIN m) \cup {k} |-> IF x = k THEN v ELSE m[x]]
MapDelete(m, k) == [x \in (DOMAIN m) \ {k} |-> m[x]]

\* Array.prototype.indexOf: the first index holding x, 0 when there is none
\* (indices are 1-based here; JavaScript's -1 is 0)
IndexOf(s, x) ==
  IF \E i \in 1..Len(s) : s[i] = x
    THEN CHOOSE i \in 1..Len(s) : s[i] = x /\ \A j \in 1..(i - 1) : s[j] # x
    ELSE 0

\* Array.prototype.splice(index, 1)
Splice1(s, i) == SubSeq(s, 1, i - 1) \o SubSeq(s, i + 1, Len(s))

\* indexOf followed by the guarded splice, as off does twice
RemoveFirst(s, x) == IF IndexOf(s, x) > 0 THEN Splice1(s, IndexOf(s, x)) ELSE s

\* -------------------------------------------------------------------- heap
VARIABLES events, recs, arrs, unsubs, last, active, scopeOf, cleanups, ended

vars == <<events, recs, arrs, unsubs, last, active, scopeOf, cleanups, ended>>

\* a faulty Slot, for C19: one entry for every handle, whatever its identifier
SlotIgnoringKey(h) == "news"

\* a faulty Slot, for C8: each handle with a registry of its own
SlotPerHandle(h) == h

\* the key under which a handle's closures read and write the one module-level
\* registry: events.get(key), events.set(key, ...), events.delete(key)
Slot(h) == KeyOf(h)
Slots == Keys \cup Handles

\* { listeners: [], handlerMap: new Map() }
NewRecord == [listeners |-> <<>>, handlerMap |-> EmptyMap]

\* object identity: a new object gets an identifier no object of the heap has.
\* The identifiers up to IdBase name the objects the registry holds between
\* two operations, after the place that holds them (see Canonical).
SlotOrder == <<"news", "other", "A", "B", "C">>
NameOrder == <<"news", "specific", Undefined>>
SlotId(s) == CHOOSE i \in 1..Len(SlotOrder) : SlotOrder[i] = s
NameId(n) == CHOOSE i \in 1..Len(NameOrder) : NameOrder[i] = n
PlaceId(s, n) == SlotId(s) * (Len(NameOrder) + 1) + NameId(n)
IdBase == PlaceId(SlotOrder[Len(SlotOrder)], NameOrder[Len(NameOrder)])
NewId(heap) ==
  1 + CHOOSE i \in (DOMAIN heap) \cup {IdBase} :
        \A j \in (DOMAIN heap) \cup {IdBase} : j <= i

\* The machine state an operation works on: the registry, the heap, the
\* calls of caller-supplied functions made so far (log: which stored callback
\* led to the call, and the arguments the caller's function received), and
\* whether an exception raised by a caller's function is on its way up the
\* call stack (thrown).
Machine ==
  [events |-> events, recs |-> recs, arrs |-> arrs, log |-> <<>>,
   thrown |-> FALSE]

\* const listenerRecord = events.get(key) || { listeners: [], handlerMap: new Map() }
\* gives the record's identifier r and the heap holding it
FetchOrNew(M, h) ==
  IF M.events[Slot(h)] # Absent
    THEN [M |-> M, r |-> M.events[Slot(h)]]
    ELSE [M |-> [M EXCEPT !.recs = MapSet(@, NewId(M.recs), NewRecord)],
          r |-> NewId(M.recs)]

\* a faulty on(listener), for C9: listeners.unshift(listener) for push
MOnListenerUnshift(M, h, cb) ==
  LET F == FetchOrNew(M, h)
  IN  [F.M EXCEPT !.recs[F.r].listeners = <<cb>> \o @,
                  !.events[Slot(h)] = F.r]

\* on(listener): the args.length === 1 branch
MOnListener(M, h, cb) ==
  LET F == FetchOrNew(M, h)
  IN  [F.M EXCEPT !.recs[F.r].listeners = Append(@, cb),
                  !.events[Slot(h)] = F.r]

\* on(event, handler): the else branch.  The array is looked up under the bus
\* identifier (handlerMap.get(key)), and stored under the event name.
MOnEvent(M, h, ev, cb) ==
  LET F == FetchOrNew(M, h)
      found == MapGet(F.M.recs[F.r].handlerMap, KeyOf(h))
      a == IF found # Absent THEN found ELSE NewId(F.M.arrs)
      M1 == IF found # Absent THEN F.M
            ELSE [F.M EXCEPT !.arrs = MapSet(@, a, <<>>)]
  IN  [M1 EXCEPT !.arrs[a] = Append(@, cb),
                 !.recs[F.r].handlerMap = MapSet(@, ev, a),
                 !.events[Slot(h)] = F.r]

\* off(listener): the args.length === 1 branch
MOffListener(M, h, cb) ==
  LET r == M.events[Slot(h)]
  IN  IF r = Absent THEN M
      ELSE LET ls == RemoveFirst(M.recs[r].listeners, cb)
               M1 == [M EXCEPT !.recs[r].listeners = ls]
           IN  IF Len(ls) = 0 THEN [M1 EXCEPT !.events[Slot(h)] = Absent]
               ELSE M1

\* off(event, handler): the else branch
MOffEvent(M, h, ev, cb) ==
  LET r == M.events[Slot(h)]
  IN  IF r = Absent THEN M
      ELSE LET hm == M.recs[r].handlerMap
               a == MapGet(hm, ev)
               left == RemoveFirst(IF a = Absent THEN <<>> ELSE M.arrs[a], cb)
               M1 == IF a = Absent THEN M ELSE [M EXCEPT !.arrs[a] = left]
               hm1 == IF Len(left) = 0 THEN MapDelete(hm, ev) ELSE hm
               M2 == [M1 EXCEPT !.recs[r].handlerMap = hm1]
           IN  IF DOMAIN hm1 = {} THEN [M2 EXCEPT !.events[Slot(h)] = Absent]
               ELSE M2

\* a faulty reset, for C13: the listeners are dropped, the entry is kept
MResetListenersOnly(M, h) ==
  IF M.events[Slot(h)] = Absent THEN M
  ELSE [M EXCEPT !.recs[M.events[Slot(h)]].listeners = <<>>]

\* reset()
MReset(M, h) == [M EXCEPT !.events[Slot(h)] = Absent]

\* -------------------------------------------------------------------- emit
\* What the caller's functions do when emit invokes them is an input of the
\* emit: a behaviour gives each function the bus calls it makes, in order, on
\* the handle that emitted.  A function that emits again does so only while
\* fewer than MaxDepth emits are already nested (it guards its own recursion).
NoCalls == [f \in UserFns |-> <<>>]
Scripts ==
  { <<[op |-> "reset", fn |-> "-"]>>,
    <<[op |-> "emit", fn |-> "-"]>>,
    <<[op |-> "emit", fn |-> "-"], [op |-> "reset", fn |-> "-"]>> }
    \cup { <<[op |-> "off", fn |-> g]>> : g \in UserFns }
    \cup { <<[op |-> "on", fn |-> g]>> : g \in UserFns }
Behaviours ==
  {NoCalls} \cup { [NoCalls EXCEPT ![f] = s] : f \in UserFns, s \in Scripts }

\* a caller's function that raises an error, and the behaviours in which at
\* most one of the caller's functions does
Raise == <<[op |-> "throw", fn |-> "-"]>>
RaisingBehaviours == {NoCalls} \cup { [NoCalls EXCEPT ![f] = Raise] : f \in UserFns }
Raisers(behav) == {f \in UserFns : behav[f] = Raise}

\* the array a forEach walks: a handler array, or a record's listeners
Elems(M, src) ==
  IF src.arr THEN M.arrs[src.id] ELSE M.recs[src.id].listeners

\* v => v(payload) for a handler, v => v(event, payload) for a listener
Args(src, ctx) == IF src.arr THEN <<ctx.p>> ELSE <<ctx.ev, ctx.p>>

RECURSIVE MEmit(_, _), ForEach(_, _, _, _, _), RunScript(_, _, _, _)

\* one bus call made from inside a caller's function
Call(M, c, ctx) ==
  CASE c.op = "reset" -> MReset(M, ctx.h)
    [] c.op = "off" -> MOffListener(M, ctx.h, Plain(c.fn))
    [] c.op = "on" -> MOnListener(M, ctx.h, Plain(c.fn))
    [] c.op = "emit" ->
         IF ctx.depth < MaxDepth THEN MEmit(M, [ctx EXCEPT !.depth = @ + 1])
         ELSE M
    [] c.op = "throw" -> [M EXCEPT !.thrown = TRUE]

\* the statements of a caller's function, up to its end or to the statement
\* that raises (or to the call out of which an error comes)
RunScript(M, script, i, ctx) ==
  IF i > Len(script) \/ M.thrown THEN M
  ELSE RunScript(Call(M, script[i], ctx), script, i + 1, ctx)

\* A call of a stored callback.  once's adapter first removes itself through the
\* off of its handle, then calls the wrapped function with the same arguments.
Invoke(M, cb, args, ctx) ==
  LET M1 == IF cb.once = 0 THEN M
            ELSE IF cb.global THEN MOffListener(M, cb.h, cb)
            ELSE MOffEvent(M, cb.h, cb.ev, cb)
      M2 == [M1 EXCEPT !.log = Append(@, [cb |-> cb, args |-> args])]
  IN  RunScript(M2, ctx.behav[cb.fn], 1, ctx)

\* Array.prototype.forEach: the length is read once, before the first call;
\* index k is visited only if the array still has it when k's turn comes, and
\* the element is read at that moment.  Nothing catches an error a callback
\* raises: the loop, and the emit around it, are left at once.
ForEach(M, src, k, len, ctx) ==
  IF k > len \/ M.thrown THEN M
  ELSE IF k > Len(Elems(M, src)) THEN ForEach(M, src, k + 1, len, ctx)
  ELSE ForEach(Invoke(M, Elems(M, src)[k], Args(src, ctx), ctx),
               src, k + 1, len, ctx)

\* a faulty emit, for C10: the global listeners are called before the handlers
MEmitListenersFirst(M, ctx) ==
  LET r == M.events[Slot(ctx.h)]
  IN  IF r = Absent THEN M
      ELSE LET M1 == ForEach(M, [arr |-> FALSE, id |-> r], 1,
                             Len(M.recs[r].listeners), ctx)
               a == MapGet(M1.recs[r].handlerMap, ctx.ev)
           IN  IF a = Absent THEN M1
               ELSE ForEach(M1, [arr |-> TRUE, id |-> a], 1,
                            Len(M1.arrs[a]), ctx)

\* a faulty emit, for C14: an error out of the handlers is caught, and the
\* global listeners are called all the same
MEmitCatching(M, ctx) ==
  LET r == M.events[Slot(ctx.h)]
  IN  IF r = Absent THEN M
      ELSE LET a == MapGet(M.recs[r].handlerMap, ctx.ev)
               M1 == IF a = Absent THEN M
                     ELSE ForEach(M, [arr |-> TRUE, id |-> a], 1,
                                  Len(M.arrs[a]), ctx)
               M2 == [M1 EXCEPT !.thrown = FALSE]
           IN  ForEach(M2, [arr |-> FALSE, id |-> r], 1,
                       Len(M2.recs[r].listeners), ctx)

\* emit(event, payload)
MEmit(M, ctx) ==
  LET r == M.events[Slot(ctx.h)]
  IN  IF r = Absent THEN M
      ELSE LET a == MapGet(M.recs[r].handlerMap, ctx.ev)
               M1 == IF a = Absent THEN M
                     ELSE ForEach(M, [arr |-> TRUE, id |-> a], 1,
                                  Len(M.arrs[a]), ctx)
           IN  ForEach(M1, [arr |-> FALSE, id |-> r], 1,
                       Len(M1.recs[r].listeners), ctx)

\* ------------------------------------------------ between two operations
\* When an operation has returned, an object the registry no longer reaches is
\* garbage: nothing can tell it from an object that never was.  The objects
\* the registry reaches are renamed after the place that holds them (a record
\* after its registry key, an array after the first event name mapped to it),
\* so that two heaps differing only in identifiers are one state.
PlaceSlot(i) == SlotOrder[i \div (Len(NameOrder) + 1)]
PlaceName(i) == NameOrder[i % (Len(NameOrder) + 1)]

LiveSlots(M) == {s \in Slots : M.events[s] # Absent}
HandlerMapOf(M, s) == M.recs[M.events[s]].handlerMap

\* the first event name of handlerMap hm that is mapped to the array of name n
FirstName(hm, n) ==
  CHOOSE m \in DOMAIN hm :
    /\ hm[m] = hm[n]
    /\ \A k \in DOMAIN hm : hm[k] = hm[n] => NameId(m) <= NameId(k)

Canonical(M) ==
  [events |-> [s \in Slots |->
                 IF M.events[s] = Absent THEN Absent ELSE SlotId(s)],
   recs |-> [i \in {SlotId(s) : s \in LiveSlots(M)} |->
               [listeners |-> M.recs[M.events[SlotOrder[i]]].listeners,
                handlerMap |->
                  [n \in DOMAIN HandlerMapOf(M, SlotOrder[i]) |->
                     PlaceId(SlotOrder[i],
                             FirstName(HandlerMapOf(M, SlotOrder[i]), n))]]],
   arrs |-> [i \in UNION {{PlaceId(s, FirstName(HandlerMapOf(M, s), n)) :
                             n \in DOMAIN HandlerMapOf(M, s)} :
                           s \in LiveSlots(M)} |->
               M.arrs[HandlerMapOf(M, PlaceSlot(i))[PlaceName(i)]]]]

\* ----------------------------------------------------------------- actions
\* the sequences the registry holds for a handle
ListenersOf(h) ==
  IF events[Slot(h)] = Absent THEN <<>> ELSE recs[events[Slot(h)]].listeners
HandlersOf(h, e) ==
  IF events[Slot(h)] = Absent THEN <<>>
  ELSE IF MapGet(recs[events[Slot(h)]].handlerMap, e) = Absent THEN <<>>
  ELSE arrs[recs[events[Slot(h)]].handlerMap[e]]
HasEntry(h) == events[Slot(h)] # Absent

\* every callback the registry or a kept unsubscribe function refers to
StoredCallbacks ==
  UNION {{recs[r].listeners[i] : i \in 1..Len(recs[r].listeners)} :
         r \in DOMAIN recs}
  \cup UNION {{arrs[a][i] : i \in 1..Len(arrs[a])} : a \in DOMAIN arrs}
  \cup {u.reg : u \in unsubs}
  \cup UNION {{cleanups[s][i].reg : i \in 1..Len(cleanups[s])} : s \in Scopes}
FreeOnceIds == (1..MaxOnce) \ {cb.once : cb \in StoredCallbacks}
NewOnceId == CHOOSE n \in FreeOnceIds : \A m \in FreeOnceIds : n <= m

\* the registry stores at most MaxRegs callbacks
RECURSIVE Stored(_, _, _)
Stored(C, rs, as) ==
  IF rs # {} THEN LET r == CHOOSE x \in rs : TRUE
                  IN  Len(C.recs[r].listeners) + Stored(C, rs \ {r}, as)
  ELSE IF as # {} THEN LET a == CHOOSE x \in as : TRUE
                       IN  Len(C.arrs[a]) + Stored(C, rs, as \ {a})
  ELSE 0
WithinBounds(C) == Stored(C, DOMAIN C.recs, DOMAIN C.arrs) <= MaxRegs

\* a faulty _off, for C16: the function that on returns to once removes the
\* function once was given, not the adapter that on registered
OffListenerFnOriginal(h, cb) ==
  [h |-> h, global |-> TRUE, ev |-> "-", cb |-> Plain(cb.fn), reg |-> cb]

\* _off = () => off(listener)  /  _off = () => off(event, handler)
\* reg: the callback whose registration returned the function; cb: the
\* callback the function gives to off (the same variable of on)
OffListenerFn(h, cb) ==
  [h |-> h, global |-> TRUE, ev |-> "-", cb |-> cb, reg |-> cb]
OffEventFn(h, e, cb) ==
  [h |-> h, global |-> FALSE, ev |-> e, cb |-> cb, reg |-> cb]

\* scope?.cleanups?.push(_off), with the scope that getCurrentScope() gave when
\* the handle was made (undefined outside any scope: nothing is pushed).  A
\* scope that has ended never runs its cleanups again, so what is pushed on it
\* is lost.
CleanupPushed(u) ==
  IF scopeOf[u.h] \in Scopes \ ended
    THEN /\ Cardinality({x \in Scopes \X (1..MaxCleanups) :
                            x[2] <= Len(cleanups[x[1]])}) < MaxCleanups
         /\ cleanups' = [cleanups EXCEPT ![scopeOf[u.h]] = Append(@, u)]
    ELSE cleanups' = cleanups

\* the end of on: the cleanup is pushed and _off is returned.  The caller
\* keeps the function on / once returns (at most MaxUnsubs of them are kept)
\* or lets it go.
Returned(u, keep) ==
  /\ keep => Cardinality(unsubs \cup {u}) <= MaxUnsubs
  /\ unsubs' = IF keep THEN unsubs \cup {u} ELSE unsubs
  /\ CleanupPushed(u)
  /\ UNCHANGED <<active, scopeOf, ended>>

\* what the entry of a handle holds: how many global listeners, and the event
\* names that have a handler
Held(h) ==
  [listeners |-> Len(ListenersOf(h)),
   names |-> {n \in EventNames : Len(HandlersOf(h, n)) > 0}]
NothingHeld == [listeners |-> 0, names |-> {}]

\* last: the operation that was called last, with its arguments; for an emit
\* the calls it made, which of the caller's functions raise an error when
\* called and whether an error came out of the emit; for a reset or a call of
\* an unsubscribe function what the entry held when it was called; for the
\* end of a scope, the scope (history, for stating the properties)
Op(op, h, e, cb) ==
  [op |-> op, h |-> h, ev |-> e, cb |-> cb, p |-> "-", plain |-> TRUE,
   calls |-> <<>>, held |-> NothingHeld, raisers |-> {}, threw |-> FALSE,
   scope |-> NoScope]

\* the registry and heap an operation leaves behind
Store(M) ==
  \E C \in {Canonical(M)} :
    /\ WithinBounds(C)
    /\ events' = C.events
    /\ recs' = C.recs
    /\ arrs' = C.arrs

Init ==
  /\ events = [s \in Slots |-> Absent]
  /\ recs = EmptyMap
  /\ arrs = EmptyMap
  /\ unsubs = {}
  /\ active = NoScope
  /\ scopeOf = [h \in Handles |-> NoScope]
  /\ cleanups = [s \in Scopes |-> <<>>]
  /\ ended = {}
  /\ last = Op("init", "-", "-", NoCb)

OnListener(h, f, keep) ==
  /\ Store(MOnListener(Machine, h, Plain(f)))
  /\ Returned(OffListenerFn(h, Plain(f)), keep)
  /\ last' = Op("on", h, "-", Plain(f))

OnEvent(h, e, f, keep) ==
  /\ Store(MOnEvent(Machine, h, e, Plain(f)))
  /\ Returned(OffEventFn(h, e, Plain(f)), keep)
  /\ last' = Op("onEvent", h, e, Plain(f))

\* once(listener): return on(_listener)
OnceListener(h, f, keep) ==
  /\ FreeOnceIds # {}
  /\ \E cb \in {AdapterG(NewOnceId, h, f)} :
       /\ Store(MOnListener(Machine, h, cb))
       /\ Returned(OffListenerFn(h, cb), keep)
       /\ last' = Op("once", h, "-", cb)

\* once(event, handler): return on(event, _handler)
OnceEvent(h, e, f, keep) ==
  /\ FreeOnceIds # {}
  /\ \E cb \in {AdapterS(NewOnceId, h, e, f)} :
       /\ Store(MOnEvent(Machine, h, e, cb))
       /\ Returned(OffEventFn(h, e, cb), keep)
       /\ last' = Op("onceEvent", h, e, cb)

OffListener(h, f) ==
  /\ Store(MOffListener(Machine, h, Plain(f)))
  /\ last' = Op("off", h, "-", Plain(f))
  /\ UNCHANGED <<unsubs, active, scopeOf, cleanups, ended>>

OffEvent(h, e, f) ==
  /\ Store(MOffEvent(Machine, h, e, Plain(f)))
  /\ last' = Op("offEvent", h, e, Plain(f))
  /\ UNCHANGED <<unsubs, active, scopeOf, cleanups, ended>>

\* a call of a function that on or once returned
Unsubscribe(u) ==
  /\ Store(IF u.global THEN MOffListener(Machine, u.h, u.cb)
           ELSE MOffEvent(Machine, u.h, u.ev, u.cb))
  /\ last' = [Op("unsubscribe", u.h, u.ev, u.reg) EXCEPT !.held = Held(u.h)]
  /\ UNCHANGED <<unsubs, active, scopeOf, cleanups, ended>>

Reset(h) ==
  /\ Store(MReset(Machine, h))
  /\ last' = [Op("reset", h, "-", NoCb) EXCEPT !.held = Held(h)]
  /\ UNCHANGED <<unsubs, active, scopeOf, cleanups, ended>>

Emit(h, e, p, behav) ==
  \E M \in {MEmit(Machine, [h |-> h, ev |-> e, p |-> p, behav |-> behav,
                            depth |-> 0])} :
    /\ Store(M)
    /\ last' = [Op("emit", h, e, NoCb) EXCEPT !.p = p,
                                              !.plain = (behav = NoCalls),
                                              !.calls = M.log,
                                              !.raisers = Raisers(behav),
                                              !.threw = M.thrown]
    /\ UNCHANGED <<unsubs, active, scopeOf, cleanups, ended>>

\* useEventBus(key): const scope = getCurrentScope().  The handle named h is
\* made anew, inside the scope that is active (or none).
UseEventBus(h) ==
  /\ scopeOf' = [scopeOf EXCEPT ![h] = active]
  /\ last' = Op("useEventBus", h, "-", NoCb)
  /\ UNCHANGED <<events, recs, arrs, unsubs, active, cleanups, ended>>

\* the code that runs next runs inside scope s (a component's setup), or
\* outside any scope
RunIn(s) ==
  /\ s \notin ended
  /\ s # active
  /\ active' = s
  /\ last' = [Op("run", "-", "-", NoCb) EXCEPT !.scope = s]
  /\ UNCHANGED <<events, recs, arrs, unsubs, scopeOf, cleanups, ended>>

\* the cleanups of a scope, called in the order they were pushed
RECURSIVE RunCleanups(_, _, _)
RunCleanups(M, fns, i) ==
  IF i > Len(fns) THEN M
  ELSE RunCleanups(IF fns[i].global THEN MOffListener(M, fns[i].h, fns[i].cb)
                   ELSE MOffEvent(M, fns[i].h, fns[i].ev, fns[i].cb),
                   fns, i + 1)

\* scope s ends (its component is unmounted): its cleanups run, once
EndScope(s) ==
  /\ s \notin ended
  /\ Store(RunCleanups(Machine, cleanups[s], 1))
  /\ cleanups' = [cleanups EXCEPT ![s] = <<>>]
  /\ ended' = ended \cup {s}
  /\ active' = IF active = s THEN NoScope ELSE active
  /\ last' = [Op("endScope", "-", "-", NoCb) EXCEPT !.scope = s]
  /\ UNCHANGED <<unsubs, scopeOf>>

\* One handle, used by a caller whose functions leave the bus alone and who
\* lets the returned unsubscribe functions go.
CoreNames == {"news", "specific"}
Next ==
  \/ \E f \in UserFns : OnListener("A", f, FALSE)
  \/ \E e \in CoreNames, f \in UserFns : OnEvent("A", e, f, FALSE)
  \/ \E f \in UserFns : OnceListener("A", f, FALSE)
  \/ \E e \in CoreNames, f \in UserFns : OnceEvent("A", e, f, FALSE)
  \/ \E f \in UserFns : OffListener("A", f)
  \/ \E e \in CoreNames, f \in UserFns : OffEvent("A", e, f)
  \/ Reset("A")
  \/ \E e \in CoreNames, p \in Payloads : Emit("A", e, p, NoCalls)

Spec == Init /\ [][Next]_vars

\* Two handles made with the same identifier.
SharedHandles == {"A", "B"}
SharedNames == {"specific"}
NextShared ==
  \/ \E h \in SharedHandles, f \in UserFns : OnListener(h, f, FALSE)
  \/ \E h \in SharedHandles, e \in SharedNames, f \in UserFns :
        OnEvent(h, e, f, FALSE)
  \/ \E h \in SharedHandles, f \in UserFns : OnceListener(h, f, FALSE)
  \/ \E h \in SharedHandles, e \in SharedNames, f \in UserFns :
        OnceEvent(h, e, f, FALSE)
  \/ \E h \in SharedHandles, f \in UserFns : OffListener(h, f)
  \/ \E h \in SharedHandles, e \in SharedNames, f \in UserFns : OffEvent(h, e, f)
  \/ \E h \in SharedHandles : Reset(h)
  \/ \E h \in SharedHandles, e \in SharedNames, p \in Payloads :
        Emit(h, e, p, NoCalls)

SpecShared == Init /\ [][NextShared]_vars

\* One handle, whose caller may keep the unsubscribe functions that on and
\* once return, and call them at any later time.
NextUnsub ==
  \/ \E f \in UserFns, keep \in BOOLEAN : OnListener("A", f, keep)
  \/ \E e \in CoreNames, f \in UserFns, keep \in BOOLEAN :
        OnEvent("A", e, f, keep)
  \/ \E f \in UserFns, keep \in BOOLEAN : OnceListener("A", f, keep)
  \/ \E e \in CoreNames, f \in UserFns, keep \in BOOLEAN :
        OnceEvent("A", e, f, keep)
  \/ \E f \in UserFns : OffListener("A", f)
  \/ \E e \in CoreNames, f \in UserFns : OffEvent("A", e, f)
  \/ \E u \in unsubs : Unsubscribe(u)
  \/ Reset("A")
  \/ \E e \in CoreNames, p \in Payloads : Emit("A", e, p, NoCalls)

SpecUnsub == Init /\ [][NextUnsub]_vars

\* One handle, whose caller's functions may call the bus again while an emit
\* is calling them.
NextReentrant ==
  \/ \E f \in UserFns : OnListener("A", f, FALSE)
  \/ \E e \in CoreNames, f \in UserFns : OnEvent("A", e, f, FALSE)
  \/ \E f \in UserFns : OnceListener("A", f, FALSE)
  \/ \E e \in CoreNames, f \in UserFns : OnceEvent("A", e, f, FALSE)
  \/ \E f \in UserFns : OffListener("A", f)
  \/ \E e \in CoreNames, f \in UserFns : OffEvent("A", e, f)
  \/ Reset("A")
  \/ \E e \in CoreNames, p \in Payloads, behav \in Behaviours :
        Emit("A", e, p, behav)

SpecReentrant == Init /\ [][NextReentrant]_vars

\* One handle, whose caller's functions may raise an error when an emit calls
\* them.
NextRaising ==
  \/ \E f \in UserFns : OnListener("A", f, FALSE)
  \/ \E e \in CoreNames, f \in UserFns : OnEvent("A", e, f, FALSE)
  \/ \E f \in UserFns : OnceListener("A", f, FALSE)
  \/ \E e \in CoreNames, f \in UserFns : OnceEvent("A", e, f, FALSE)
  \/ \E f \in UserFns : OffListener("A", f)
  \/ \E e \in CoreNames, f \in UserFns : OffEvent("A", e, f)
  \/ Reset("A")
  \/ \E e \in CoreNames, p \in Payloads, behav \in RaisingBehaviours :
        Emit("A", e, p, behav)

SpecRaising == Init /\ [][NextRaising]_vars

\* One handle, whose caller may keep the unsubscribe functions that once
\* returns, and call them at any later time.
NextOnceUnsub ==
  \/ \E f \in UserFns : OnListener("A", f, FALSE)
  \/ \E e \in SharedNames, f \in UserFns : OnEvent("A", e, f, FALSE)
  \/ \E f \in UserFns, keep \in BOOLEAN : OnceListener("A", f, keep)
  \/ \E e \in SharedNames, f \in UserFns, keep \in BOOLEAN :
        OnceEvent("A", e, f, keep)
  \/ \E f \in UserFns : OffListener("A", f)
  \/ \E e \in SharedNames, f \in UserFns : OffEvent("A", e, f)
  \/ \E u \in unsubs : Unsubscribe(u)
  \/ Reset("A")
  \/ \E e \in SharedNames, p \in Payloads : Emit("A", e, p, NoCalls)

SpecOnceUnsub == Init /\ [][NextOnceUnsub]_vars

\* One handle, whose caller has one handler function for each event name, and
\* registers, removes and emits under every event name: the one equal to the
\* bus identifier, a plain one, and the omitted one.
HandlerFor == [e \in EventNames |->
                 IF e = "news" THEN "H1" ELSE IF e = "specific" THEN "H2" ELSE "H3"]
NameHandlers == {HandlerFor[e] : e \in EventNames}
NoCallsNamed == [f \in UserFns \cup NameHandlers |-> <<>>]
NextNames ==
  \/ \E f \in UserFns : OnListener("A", f, FALSE)
  \/ \E e \in EventNames : OnEvent("A", e, HandlerFor[e], FALSE)
  \/ \E e \in EventNames : OnceEvent("A", e, HandlerFor[e], FALSE)
  \/ \E f \in UserFns : OffListener("A", f)
  \/ \E e \in EventNames : OffEvent("A", e, HandlerFor[e])
  \/ Reset("A")
  \/ \E e \in EventNames, p \in Payloads : Emit("A", e, p, NoCallsNamed)

SpecNames == Init /\ [][NextNames]_vars

\* Two handles made with different identifiers, each used by a caller with a
\* function of its own, who may keep the unsubscribe functions that on returns.
IsolatedHandles == {"A", "C"}
FnOf(h) == IF KeyOf(h) = "news" THEN "L1" ELSE "L2"
NextIsolated ==
  \/ \E h \in IsolatedHandles, keep \in BOOLEAN : OnListener(h, FnOf(h), keep)
  \/ \E h \in IsolatedHandles, e \in SharedNames, keep \in BOOLEAN :
        OnEvent(h, e, FnOf(h), keep)
  \/ \E h \in IsolatedHandles : OnceListener(h, FnOf(h), FALSE)
  \/ \E h \in IsolatedHandles, e \in SharedNames :
        OnceEvent(h, e, FnOf(h), FALSE)
  \/ \E h \in IsolatedHandles : OffListener(h, FnOf(h))
  \/ \E h \in IsolatedHandles, e \in SharedNames : OffEvent(h, e, FnOf(h))
  \/ \E u \in unsubs : Unsubscribe(u)
  \/ \E h \in IsolatedHandles : Reset(h)
  \/ \E h \in IsolatedHandles, e \in SharedNames, p \in Payloads :
        Emit(h, e, p, NoCalls)

SpecIsolated == Init /\ [][NextIsolated]_vars

\* One handle, made and used inside an effect scope and outside any.  The
\* function a caller registers tells where the on / once call was made: L1
\* inside scope S1, L2 elsewhere.
ScopedHandles == {"A"}
SetupScopes == {"S1"}
FnIn(s) == IF s = "S1" THEN "L1" ELSE "L2"
NextScopes ==
  \/ \E h \in ScopedHandles : UseEventBus(h)
  \/ \E s \in SetupScopes \cup {NoScope} : RunIn(s)
  \/ \E s \in SetupScopes : EndScope(s)
  \/ \E h \in ScopedHandles : OnListener(h, FnIn(active), FALSE)
  \/ \E h \in ScopedHandles, e \in SharedNames : OnEvent(h, e, FnIn(active), FALSE)
  \/ \E h \in ScopedHandles : OnceListener(h, FnIn(active), FALSE)
  \/ \E h \in ScopedHandles, e \in SharedNames :
        OnceEvent(h, e, FnIn(active), FALSE)
  \/ \E h \in ScopedHandles, f \in UserFns : OffListener(h, f)
  \/ \E h \in ScopedHandles, e \in SharedNames, f \in UserFns : OffEvent(h, e, f)
  \/ \E h \in ScopedHandles, e \in SharedNames, p \in Payloads :
        Emit(h, e, p, NoCalls)

SpecScopes == Init /\ [][NextScopes]_vars

\* One handle, made and used inside two effect scopes and outside any, by a
\* caller who registers with on and leaves the removal to the scopes.
NextTwoScopes ==
  \/ \E h \in ScopedHandles : UseEventBus(h)
  \/ \E s \in Scopes \cup {NoScope} : RunIn(s)
  \/ \E s \in Scopes : EndScope(s)
  \/ \E h \in ScopedHandles : OnListener(h, FnIn(active), FALSE)
  \/ \E h \in ScopedHandles, e \in SharedNames : OnEvent(h, e, FnIn(active), FALSE)
  \/ \E h \in ScopedHandles, e \in SharedNames, p \in Payloads :
        Emit(h, e, p, NoCalls)

SpecTwoScopes == Init /\ [][NextTwoScopes]_vars

\* ------------------------------------------------------------ properties
Registry == <<events, recs, arrs>>
Elements(s) == {s[i] : i \in 1..Len(s)}
IsAdapter(cb) == cb.once > 0

\* the operation just called (in the second state of a step)
Called(op, h) == last'.op = op /\ last'.h = h
CalledOn(op, h, e) == last'.op = op /\ last'.h = h /\ last'.ev = e

\* C1: on(eventName, handler) appends the handler to the sequence that
\* eventName already has, so that no handler registered earlier under the
\* name is dropped or replaced (and a later emit of the name reaches them all
\* in registration order).
C1_OnEventAppends ==
  [][\A h \in Handles, e \in EventNames :
       CalledOn("onEvent", h, e) =>
         HandlersOf(h, e)' = Append(HandlersOf(h, e), last'.cb)]_vars

\* C2: off(globalListener) touches only the global-listener sequence: every
\* scoped handler of the bus stays registered, also when the removed listener
\* was the last global one.
C2_OffListenerKeepsHandlers ==
  [][\A h \in Handles, e \in EventNames :
       Called("off", h) => HandlersOf(h, e)' = HandlersOf(h, e)]_vars

\* C3: off(eventName, handler) touches only that name's handler sequence:
\* every global listener stays registered, also when the removed handler was
\* the last scoped one.
C3_OffEventKeepsListeners ==
  [][\A h \in Handles :
       Called("offEvent", h) => ListenersOf(h)' = ListenersOf(h)]_vars

\* C4: off is a no-op when its target is not found: off(L) with L not among
\* the global listeners, or off(e, H) with H not among the handlers of e,
\* leaves the whole registry unchanged.
C4_OffNotFoundNoOp ==
  [][\A h \in Handles, e \in EventNames \cup {"-"} :
       (\/ /\ CalledOn("off", h, e)
           /\ last'.cb \notin Elements(ListenersOf(h))
        \/ /\ CalledOn("offEvent", h, e)
           /\ last'.cb \notin Elements(HandlersOf(h, e)))
       => UNCHANGED Registry]_vars

\* C5: the function on returns is idempotent: called when the listener or
\* handler it was made for is no longer registered, it leaves the registry
\* unchanged, whatever was called in between.
C5_UnsubscribeIdempotent ==
  [][\A h \in Handles, e \in EventNames \cup {"-"} :
       (/\ CalledOn("unsubscribe", h, e)
        /\ ~IsAdapter(last'.cb)
        /\ last'.cb \notin
             Elements(IF e = "-" THEN ListenersOf(h) ELSE HandlersOf(h, e)))
       => UNCHANGED Registry]_vars

\* C6: a function registered with once is called at most once, also when the
\* caller's functions call emit, on, off or reset on the bus during an emit:
\* no emit calls it twice through one adapter.
C6_OnceAtMostOnce ==
  last.op = "emit" =>
    \A i \in 1..Len(last.calls), j \in 1..Len(last.calls) :
      (IsAdapter(last.calls[i].cb) /\ last.calls[i].cb = last.calls[j].cb)
        => i = j

\* the calls an emit makes to the caller's functions
ScopedCall(cb, p) == [cb |-> cb, args |-> <<p>>]
GlobalCall(cb, e, p) == [cb |-> cb, args |-> <<e, p>>]

\* C7: a removal made during an emit does not change who is invoked in that
\* emit: every global listener, and every handler of the emitted name, that
\* was registered when the emit started is invoked in it.
C7_RemovalDuringEmitKeepsCalls ==
  [][\A h \in Handles, e \in EventNames :
       CalledOn("emit", h, e) =>
         /\ \A cb \in Elements(ListenersOf(h)) :
              \E i \in 1..Len(last'.calls) :
                last'.calls[i] = GlobalCall(cb, e, last'.p)
         /\ \A cb \in Elements(HandlersOf(h, e)) :
              \E i \in 1..Len(last'.calls) :
                last'.calls[i] = ScopedCall(cb, last'.p)]_vars

\* how often x occurs in s
Count(s, x) == Cardinality({i \in 1..Len(s) : s[i] = x})

\* C8: handles made with equal identifiers work on one Bus Entry.  Whatever is
\* called through a handle hA shows through every handle hB of the same
\* identifier: a listener or handler registered through hA is in the sequence
\* hB sees; an emit through hA calls every listener hB sees (when no callback
\* removes one); an off through hA removes one registration of the listener
\* from what hB sees; a reset through hA leaves hB nothing.
C8_SharedIdentity ==
  [][\A hA \in Handles, hB \in Handles, e \in EventNames \cup {"-"} :
       KeyOf(hA) = KeyOf(hB) =>
         /\ CalledOn("on", hA, e) \/ CalledOn("once", hA, e) =>
              ListenersOf(hB)' = Append(ListenersOf(hB), last'.cb)
         /\ CalledOn("onEvent", hA, e) \/ CalledOn("onceEvent", hA, e) =>
              last'.cb \in Elements(HandlersOf(hB, e)')
         /\ CalledOn("emit", hA, e) =>
              \/ \E cb \in Elements(ListenersOf(hB)) : IsAdapter(cb)
              \/ \A cb \in Elements(ListenersOf(hB)) :
                   \E i \in 1..Len(last'.calls) :
                     last'.calls[i] = GlobalCall(cb, e, last'.p)
         /\ CalledOn("off", hA, e) =>
              Count(ListenersOf(hB)', last'.cb) =
                IF Count(ListenersOf(hB), last'.cb) = 0 THEN 0
                ELSE Count(ListenersOf(hB), last'.cb) - 1
         /\ CalledOn("offEvent", hA, e) =>
              Count(HandlersOf(hB, e)', last'.cb) =
                IF Count(HandlersOf(hB, e), last'.cb) = 0 THEN 0
                ELSE Count(HandlersOf(hB, e), last'.cb) - 1
         /\ CalledOn("reset", hA, e) =>
              /\ ~HasEntry(hB)'
              /\ ListenersOf(hB)' = <<>>
              /\ \A n \in EventNames : HandlersOf(hB, n)' = <<>>]_vars

\* C8 witness: an emit through handle B has called a function that a once
\* through handle A registered.
C8_Witness ==
  /\ last.op = "emit"
  /\ last.h = "B"
  /\ \E i \in 1..Len(last.calls) :
       IsAdapter(last.calls[i].cb) /\ last.calls[i].cb.h = "A"

\* s without its first occurrence of x, stated without indexOf / splice
WithoutFirst(s, t, x) ==
  IF x \notin Elements(s) THEN t = s
  ELSE \E i \in 1..Len(s) :
         /\ s[i] = x
         /\ \A j \in 1..(i - 1) : s[j] # x
         /\ Len(t) = Len(s) - 1
         /\ \A j \in 1..Len(t) : t[j] = IF j < i THEN s[j] ELSE s[j + 1]

\* C9: the global listeners are kept in registration order: on(L) puts L
\* behind the listeners already registered; an emit calls each registered
\* listener once, in that order, with (event, payload), when none of them
\* changes the bus; off(L) removes exactly the first registration of L and
\* leaves the others in their order.
C9_GlobalListenerOrder ==
  [][\A h \in Handles, e \in EventNames \cup {"-"} :
       /\ CalledOn("on", h, e) =>
            ListenersOf(h)' = Append(ListenersOf(h), last'.cb)
       /\ (/\ CalledOn("emit", h, e)
           /\ last'.plain
           /\ \A cb \in Elements(ListenersOf(h)) : ~IsAdapter(cb)) =>
            SelectSeq(last'.calls, LAMBDA c : Len(c.args) = 2) =
              [i \in 1..Len(ListenersOf(h)) |->
                 GlobalCall(ListenersOf(h)[i], e, last'.p)]
       /\ CalledOn("off", h, e) =>
            WithoutFirst(ListenersOf(h), ListenersOf(h)', last'.cb)]_vars

\* C9 witness: an emit has called two different global listeners, the one
\* registered first before the other.
C9_Witness ==
  /\ last.op = "emit"
  /\ ListenersOf(last.h) = <<Plain("L2"), Plain("L1")>>
  /\ last.calls = <<GlobalCall(Plain("L2"), last.ev, last.p),
                    GlobalCall(Plain("L1"), last.ev, last.p)>>

\* C10: emit(e, p) calls the handlers of e, each with p, and then the global
\* listeners, each with (e, p); a handler that is not in the sequence of the
\* emitted name is not called (callbacks that leave the bus alone).
C10_EmitFanOut ==
  [][\A h \in Handles, e \in EventNames :
       (/\ CalledOn("emit", h, e)
        /\ last'.plain
        /\ \A cb \in Elements(ListenersOf(h)) \cup Elements(HandlersOf(h, e)) :
             ~IsAdapter(cb)) =>
         last'.calls =
           [i \in 1..Len(HandlersOf(h, e)) |->
              ScopedCall(HandlersOf(h, e)[i], last'.p)]
           \o [i \in 1..Len(ListenersOf(h)) |->
                 GlobalCall(ListenersOf(h)[i], e, last'.p)]]_vars

\* C10 witness: on(L1); on("specific", L2); emit("specific", "hello") has
\* called L2 with the payload and then L1 with the name and the payload.
C10_Witness ==
  /\ last.op = "emit"
  /\ last.calls = <<ScopedCall(Plain("L2"), "hello"),
                    GlobalCall(Plain("L1"), "specific", "hello")>>

\* C10 witness of the other name: with L2 registered under "specific" only,
\* emit("news", "hello") has called the global listener L1 alone.
C10_OtherNameReached ==
  /\ last.op = "emit"
  /\ last.ev = "news"
  /\ HandlersOf(last.h, "specific") = <<Plain("L2")>>
  /\ last.calls = <<GlobalCall(Plain("L1"), "news", "hello")>>

\* the records the registry holds, and whether one holds any callback
EntryRecs == {events[s] : s \in Slots} \ {Absent}
HoldsCallback(r) ==
  \/ Len(recs[r].listeners) > 0
  \/ \E n \in DOMAIN recs[r].handlerMap : Len(arrs[recs[r].handlerMap[n]]) > 0

\* C11: eager cleanup: every entry the registry holds has at least one
\* global listener or at least one handler under some event name; when the
\* last one is removed the entry goes with it.
C11_EagerCleanup == \A r \in EntryRecs : HoldsCallback(r)

\* C12: no handlerMap maps an event name to an empty array: the name is
\* deleted by the operation that empties its array, for every event name.
C12_NoEmptySequence ==
  \A r \in EntryRecs :
    \A n \in DOMAIN recs[r].handlerMap : Len(arrs[recs[r].handlerMap[n]]) > 0

\* the operations that register a callback
Registering == {"on", "once", "onEvent", "onceEvent"}

\* C13: reset clears everything: after reset the registry has no entry for the
\* identifier, whatever global listeners and handlers under however many
\* names it held; an emit on an identifier without entry calls nothing and
\* an entry comes back only with a new on / once; reset on an identifier
\* without entry leaves the registry unchanged.
C13_ResetClears ==
  [][\A h \in Handles, e \in EventNames \cup {"-"} :
       /\ CalledOn("reset", h, e) =>
            /\ ~HasEntry(h)'
            /\ ListenersOf(h)' = <<>>
            /\ \A n \in EventNames : HandlersOf(h, n)' = <<>>
            /\ ~HasEntry(h) => UNCHANGED Registry
       /\ (CalledOn("emit", h, e) /\ ~HasEntry(h)) =>
            /\ last'.calls = <<>>
            /\ UNCHANGED Registry
       /\ (~HasEntry(h) /\ HasEntry(h)') => last'.op \in Registering]_vars

\* C13 witness: a reset was called on a bus that held a global listener and
\* handlers under two event names, and has left no entry.
C13_Witness ==
  /\ last.op = "reset"
  /\ last.held.listeners > 0
  /\ Cardinality(last.held.names) >= 2
  /\ ~HasEntry(last.h)

\* the calls emit(e, p) through handle h makes when every callback returns:
\* the handlers of e, then the global listeners
FanOut(h, e, p) ==
  [i \in 1..Len(HandlersOf(h, e)) |-> ScopedCall(HandlersOf(h, e)[i], p)]
  \o [i \in 1..Len(ListenersOf(h)) |-> GlobalCall(ListenersOf(h)[i], e, p)]

\* the index of the first call in s of a function of R, Len(s) without one
FirstRaise(s, R) ==
  IF \E i \in 1..Len(s) : s[i].cb.fn \in R
    THEN CHOOSE i \in 1..Len(s) :
           s[i].cb.fn \in R /\ \A j \in 1..(i - 1) : s[j].cb.fn \notin R
    ELSE Len(s)

\* C14: error propagation: when a listener or handler called by emit raises,
\* the error leaves emit to its caller (and only then does one), no listener
\* or handler later in the emit's order is called, and the registry is not
\* changed because of the error (it is as the calls made so far left it:
\* unchanged, when no once adapter was called).
C14_ErrorPropagation ==
  [][\A h \in Handles, e \in EventNames :
       CalledOn("emit", h, e) =>
         /\ last'.threw <=>
              \E i \in 1..Len(last'.calls) :
                last'.calls[i].cb.fn \in last'.raisers
         /\ \A i \in 1..Len(last'.calls) :
              last'.calls[i].cb.fn \in last'.raisers => i = Len(last'.calls)
         /\ (\A cb \in Elements(ListenersOf(h)) \cup Elements(HandlersOf(h, e)) :
               ~IsAdapter(cb)) =>
              last'.calls =
                SubSeq(FanOut(h, e, last'.p), 1,
                       FirstRaise(FanOut(h, e, last'.p), last'.raisers))
         /\ (\A i \in 1..Len(last'.calls) : ~IsAdapter(last'.calls[i].cb)) =>
              UNCHANGED Registry]_vars

\* C14 witness: with handlers L1, L2 under "news" and the global listener L2,
\* emit("news", "hello") has called L1, which raised: the emit threw, and
\* neither the handler L2 nor the listener L2 was called.
C14_Witness ==
  /\ last.op = "emit"
  /\ last.threw
  /\ last.raisers = {"L1"}
  /\ HandlersOf("A", "news") = <<Plain("L1"), Plain("L2")>>
  /\ ListenersOf("A") = <<Plain("L2")>>
  /\ last.calls = <<ScopedCall(Plain("L1"), "hello")>>

\* the adapters once can make through handle "A": _listener for
\* once(listener), _handler for once(event, handler)
OnceAdapters ==
  {AdapterG(n, "A", f) : n \in 1..MaxOnce, f \in UserFns}
  \cup UNION {{AdapterS(n, "A", e, f) : n \in 1..MaxOnce, f \in UserFns} :
              e \in SharedNames}

\* the function that registering cb returned has just been called
Unsubscribed(cb) == last.op = "unsubscribe" /\ last.cb = cb
\* an emit has just called the function that adapter cb wraps
CalledThrough(cb) ==
  last.op = "emit" /\ \E i \in 1..Len(last.calls) : last.calls[i].cb = cb

\* C16: the function once returns removes the adapter: from the moment it is
\* called, no emit calls the wrapped listener (once(listener)) or handler
\* (once(event, handler)) through that adapter.
C16_OnceUnsubscribe ==
  \A cb \in OnceAdapters : [](Unsubscribed(cb) => [](~CalledThrough(cb)))

\* C16 witness: the function returned by once(listener) was called while the
\* adapter was among the global listeners, and has taken it out.
C16_Witness ==
  /\ last.op = "unsubscribe"
  /\ IsAdapter(last.cb)
  /\ last.cb.global
  /\ last.held.listeners = Len(ListenersOf(last.h)) + 1
  /\ last.cb \notin Elements(ListenersOf(last.h))

\* C17: name scoping of handlers: emit(e, p) calls no handler that was
\* registered (by on or once) only under an event name different from e, be e
\* equal to the bus identifier, another name or the omitted name.  (Under
\* SpecNames each handler function is registered under its own name only.)
C17_NameScoping ==
  [][\A h \in Handles, e \in EventNames :
       CalledOn("emit", h, e) =>
         \A i \in 1..Len(last'.calls) :
           Len(last'.calls[i].args) = 1 =>
             last'.calls[i].cb.fn = HandlerFor[e]]_vars

\* the Bus Entry a handle works on: whether the registry has it, its global
\* listeners, its handlers under each event name, and which names share an array
EntryOf(h) ==
  [has |-> HasEntry(h),
   listeners |-> ListenersOf(h),
   handlers |-> [n \in EventNames |-> HandlersOf(h, n)],
   arrays |-> [n \in EventNames |->
                 IF HasEntry(h) THEN MapGet(recs[events[Slot(h)]].handlerMap, n)
                 ELSE Absent]]

\* C19: isolation between identifiers: an operation (on, once, off, emit,
\* reset, unsubscribe) made through a handle of identifier k1 leaves the entry
\* of every other identifier k2 unchanged and, when it is an emit, calls no
\* function registered on k2; an entry comes into being only by an on or a
\* once through a handle of its identifier.  (Under SpecIsolated the callers of
\* the two identifiers register different functions.)
C19_Isolation ==
  [][\A h1 \in Handles, h2 \in Handles :
       (last'.h = h1 /\ KeyOf(h1) # KeyOf(h2)) =>
         /\ EntryOf(h2)' = EntryOf(h2)
         /\ \A i \in 1..Len(last'.calls) : last'.calls[i].cb.fn # FnOf(h2)
         /\ HasEntry(h1)' /\ ~HasEntry(h1) => last'.op \in Registering]_vars

\* C19 witness: an emit through the handle of "news" has called the listener
\* registered there, while the entry of "other" holds a listener and a handler
\* of its own.
C19_Witness ==
  /\ last.op = "emit"
  /\ last.h = "A"
  /\ last.calls # <<>>
  /\ ListenersOf("C") # <<>>
  /\ \E n \in EventNames : HandlersOf("C", n) # <<>>

\* the unsubscribe function that the on / once call recorded in l returned
OffFnOf(l) ==
  IF l.op \in {"on", "once"} THEN OffListenerFn(l.h, l.cb)
  ELSE OffEventFn(l.h, l.ev, l.cb)

\* C15: auto-unsubscribe is decided when on / once is called: called while a
\* scope is active, its unsubscribe function becomes a cleanup of that scope,
\* also when the handle was made outside any scope (so that the end of the
\* scope takes the listener off the bus); called while no scope is active,
\* nothing is registered with any scope.
C15_ScopeAtOnTime ==
  [][last'.op \in Registering =>
       cleanups' = IF active \in Scopes
                     THEN [cleanups EXCEPT ![active] = Append(@, OffFnOf(last'))]
                     ELSE cleanups]_vars

\* the callbacks that hold function f: f itself and the once adapters around it
Holding(s, f) == SelectSeq(s, LAMBDA cb : cb.fn = f)

\* C18: the end of a scope removes that scope's subscriptions only: when the
\* cleanups of scope s run, every listener and handler of the bus that was
\* registered outside s (inside another scope, or with no scope active) stays
\* registered, in its place, for a later emit to call.  (Under SpecTwoScopes
\* the function FnIn(s) is registered inside s, and every other function
\* outside s; the case stated is the one where the cleanups of s are those of
\* registrations made inside s.)
C18_ScopeEndKeepsOthers ==
  [][\A s \in Scopes, h \in Handles, e \in EventNames, f \in UserFns :
       (/\ last'.op = "endScope"
        /\ last'.scope = s
        /\ \A i \in 1..Len(cleanups[s]) : cleanups[s][i].reg.fn = FnIn(s)
        /\ f # FnIn(s)) =>
         /\ Holding(ListenersOf(h)', f) = Holding(ListenersOf(h), f)
         /\ Holding(HandlersOf(h, e)', f) = Holding(HandlersOf(h, e), f)]_vars

====
